---- MODULE Spec2Model ----
(***************************************************************************)
(* A state-machine model of the parking scripts of the repository:         *)
(*   src/parking_system.py             (ParkingLot + ParkingSystem)        *)
(*   src/parking_management_system.py  (ParkingSystem, single class)       *)
(* The two scripts are independent programs; `prog` says which one runs.   *)
(*                                                                         *)
(* Strings the code converts (plates, pass types) are sequences of         *)
(* one-character strings, so that upper(), lower() and replace(" ", "")    *)
(* are computed character by character.  The clock counts whole hours;     *)
(* the float hours_parked is carried in halves of an hour (HourScale) and  *)
(* a fee in halves of a TL, so that `hours * rate` is exact.               *)
(***************************************************************************)
EXTENDS Integers, Sequences, FiniteSets, TLC

VARIABLES
    prog,                \* which script is running
    clock,               \* datetime.datetime.now(), in ticks of TickSeconds
    lot_capacity,        \* the lot's capacity: ParkingLot._capacity in
                         \* parking_system.py, ParkingSystem._capacity in
                         \* parking_management_system.py
    parked_vehicles,     \* ParkingLot._parked_vehicles : plate -> entry time
    registered_drivers,  \* ParkingSystem._registered_drivers : plate -> Driver
    issued_passes,       \* ParkingSystem._issued_passes : plate -> ParkingPass
    pms_parked_vehicles, \* parking_management_system.py ParkingSystem
                         \* ._parked_vehicles : plate -> entry time
    pms_drivers,         \* ... ._drivers : plate -> Driver
    pms_passes,          \* ... ._passes : plate -> ParkingPass
    fee_call,            \* one call of calculate_fee on its own: the pass, the
                         \* hours and what the call gave
    vault,               \* atm_management_system.py ArasakaATM._vault and
                         \* atm_simulation.py ATM.accounts : card -> _balance
    doctors,             \* hospital_management_system.py HospitalSystem._doctors
    patients,            \* ... ._patients : id -> Patient, with its _assigned_doctor
    last                 \* the last call: the method and the exception it raised

vars == <<prog, clock, lot_capacity, parked_vehicles, registered_drivers,
          issued_passes, pms_parked_vehicles, pms_drivers, pms_passes, fee_call,
          vault, doctors, patients, last>>

ps_vars == <<parked_vehicles, registered_drivers, issued_passes>>

pms_vars == <<pms_parked_vehicles, pms_drivers, pms_passes>>

atm_vars == <<vault>>

hospital_vars == <<doctors, patients>>

(* What the parking scripts never touch. *)
other_vars == <<fee_call, atm_vars, hospital_vars>>

-----------------------------------------------------------------------------
(* Bounds of the model. *)

MaxTime == 2

MaxHours == 8

-----------------------------------------------------------------------------
(* Units. *)

(* total_seconds() / 3600.0 *)
SecondsPerHour == 3600

(* One tick of the clock. *)
TickSeconds == SecondsPerHour

(* The float hours_parked as a fixed-point number: HourScale units an hour. *)
HourScale == 2

(* Mutant: the duration is taken as entry minus exit. *)
hours_between_reversed(entry_time, exit_time) ==
    ((entry_time - exit_time) * TickSeconds * HourScale) \div SecondsPerHour

(* (exit_time - entry_time).total_seconds() / 3600.0 *)
hours_between(entry_time, exit_time) ==
    ((exit_time - entry_time) * TickSeconds * HourScale) \div SecondsPerHour

(* strftime('%M%S'): the minutes and seconds of a timestamp, in seconds. *)
strftime_MS(t) == (t * TickSeconds) % SecondsPerHour

-----------------------------------------------------------------------------
(* Inputs. *)

AA11 == <<"A", "A", "1", "1">>

aa_11 == <<"a", "a", " ", "1", "1">>

BB22 == <<"B", "B", "2", "2">>

PlateInputs == {<<>>, <<" ">>, AA11, aa_11, BB22}

PmsPlateInputs == {<<>>, <<" ">>, AA11, aa_11}

CapacityInputs == {1, 2}

student == <<"s", "t", "u", "d", "e", "n", "t">>

Staff == <<"S", "t", "a", "f", "f">>

staff == <<"s", "t", "a", "f", "f">>

vip == <<"v", "i", "p">>

PassTypeInputs == {student, Staff, vip}

DriverInputs == {<<"Ann", "D1">>, <<"Bob", "">>}

VehicleTypeInputs == {"car"}

(* entry_time_override = None *)
None == -1

OverrideInputs == {None, 0, MaxTime}

-----------------------------------------------------------------------------
(* str.upper(), str.lower(), str.replace(" ", "") *)

LowerCase == <<"a", "b", "c", "d", "e", "f", "g", "h", "i", "j", "k", "l", "m",
               "n", "o", "p", "q", "r", "s", "t", "u", "v", "w", "x", "y", "z">>

UpperCase == <<"A", "B", "C", "D", "E", "F", "G", "H", "I", "J", "K", "L", "M",
               "N", "O", "P", "Q", "R", "S", "T", "U", "V", "W", "X", "Y", "Z">>

Index(seq, c) == CHOOSE i \in 1 .. Len(seq) : seq[i] = c

ToUpper == [c \in {LowerCase[i] : i \in 1 .. Len(LowerCase)} |-> UpperCase[Index(LowerCase, c)]]

ToLower == [c \in {UpperCase[i] : i \in 1 .. Len(UpperCase)} |-> LowerCase[Index(UpperCase, c)]]

upper_char(c) == IF c \in DOMAIN ToUpper THEN ToUpper[c] ELSE c

lower_char(c) == IF c \in DOMAIN ToLower THEN ToLower[c] ELSE c

upper(s) == [i \in 1 .. Len(s) |-> upper_char(s[i])]

lower(s) == [i \in 1 .. Len(s) |-> lower_char(s[i])]

RECURSIVE replace_spaces(_)
replace_spaces(s) ==
    IF s = <<>> THEN <<>>
    ELSE IF Head(s) = " " THEN replace_spaces(Tail(s))
    ELSE <<Head(s)>> \o replace_spaces(Tail(s))

(* plate.upper().replace(" ", "") *)
clean(plate) == replace_spaces(upper(plate))

-----------------------------------------------------------------------------
(* dict helpers *)

EmptyDict == <<>>

Put(d, k, v) == [x \in DOMAIN d \cup {k} |-> IF x = k THEN v ELSE d[x]]

Pop(d, k) == [x \in DOMAIN d \ {k} |-> d[x]]

(* An exception: its class and which raise statement it comes from. *)
Exc(type, msg) == [type |-> type, msg |-> msg]

NoExc == Exc("none", "")

(* The exception hierarchy: ParkingError and its subclasses. *)
ParkingErrors ==
    {"ParkingError", "DuplicatePlateError", "FullLotError", "VehicleNotParkedError"}

(* `except ParkingError` catches e *)
IsParkingError(e) == e.type \in ParkingErrors

-----------------------------------------------------------------------------
(* parking_system.py: Vehicle, Driver *)

validate_plate(plate) ==
    IF plate = <<>>
    THEN [exc |-> Exc("ValueError", "License plate cannot be empty or invalid."),
          val |-> <<>>]
    ELSE [exc |-> NoExc, val |-> clean(plate)]

validate_id(driver_id) ==
    IF driver_id = ""
    THEN [exc |-> Exc("ValueError", "Driver ID cannot be empty."), val |-> ""]
    ELSE [exc |-> NoExc, val |-> driver_id]

Vehicle(license_plate, vehicle_type) ==
    [license_plate |-> validate_plate(license_plate).val, vehicle_type |-> vehicle_type]

Driver(full_name, driver_id, vehicle) ==
    [full_name |-> full_name, driver_id |-> validate_id(driver_id).val,
     vehicle |-> vehicle]

-----------------------------------------------------------------------------
(* parking_system.py: the passes.  hours_parked counts 1/HourScale hours   *)
(* and the fee 1/HourScale TL.                                             *)

STUDENT_RATE == 2

STAFF_RATE == 3

ParkingPass(cls, pass_id, driver, fee_rate) ==
    [cls |-> cls, pass_id |-> pass_id, driver |-> driver, fee_rate |-> fee_rate]

StudentPass(pass_id, driver) == ParkingPass("StudentPass", pass_id, driver, STUDENT_RATE)

StaffPass(pass_id, driver) == ParkingPass("StaffPass", pass_id, driver, STAFF_RATE)

NegativeHours == Exc("ValueError", "Parked hours cannot be negative.")

ParkingPass_calculate_fee(self, hours_parked) ==
    IF hours_parked < 0 THEN [exc |-> NegativeHours, fee |-> 0]
    ELSE [exc |-> NoExc, fee |-> hours_parked * self.fee_rate]

StudentPass_calculate_fee(self, hours_parked) ==
    ParkingPass_calculate_fee(self, hours_parked)

(* Mutant: the free first hour is subtracted without the `<= 1.0` test. *)
StaffPass_calculate_fee_unclamped(self, hours_parked) ==
    IF hours_parked < 0 THEN [exc |-> NegativeHours, fee |-> 0]
    ELSE [exc |-> NoExc, fee |-> (hours_parked - 1 * HourScale) * self.fee_rate]

StaffPass_calculate_fee(self, hours_parked) ==
    IF hours_parked < 0 THEN [exc |-> NegativeHours, fee |-> 0]
    ELSE IF hours_parked <= 1 * HourScale THEN [exc |-> NoExc, fee |-> 0]
    ELSE [exc |-> NoExc, fee |-> (hours_parked - 1 * HourScale) * self.fee_rate]

(* parking_pass.calculate_fee(hours_parked), dispatched on the pass's class. *)
calculate_fee(self, hours_parked) ==
    IF self.cls = "StaffPass" THEN StaffPass_calculate_fee(self, hours_parked)
    ELSE IF self.cls = "StudentPass" THEN StudentPass_calculate_fee(self, hours_parked)
    ELSE ParkingPass_calculate_fee(self, hours_parked)

-----------------------------------------------------------------------------
(* parking_system.py: ParkingLot, as functions of the lot's mapping. *)

validate_capacity(capacity) ==
    IF capacity <= 0
    THEN [exc |-> Exc("ValueError", "Capacity must be a positive integer."), val |-> 0]
    ELSE [exc |-> NoExc, val |-> capacity]

(* Mutant: an off-by-one in the capacity test. *)
is_full_off_by_one(pv, capacity) == Cardinality(DOMAIN pv) > capacity

is_full(pv, capacity) == Cardinality(DOMAIN pv) >= capacity

(* Mutant: the plate is looked up as it was typed. *)
is_parked_exact(pv, license_plate) == license_plate \in DOMAIN pv

is_parked(pv, license_plate) == clean(license_plate) \in DOMAIN pv

(* Mutant: the duplicate test comes before the capacity test. *)
add_vehicle_duplicate_first(pv, capacity, license_plate, now) ==
    LET plate == clean(license_plate) IN
    IF is_parked(pv, plate)
    THEN [exc |-> Exc("ParkingError", "is already parked"), pv |-> pv]
    ELSE IF is_full(pv, capacity)
    THEN [exc |-> Exc("FullLotError", "parking lot is full"), pv |-> pv]
    ELSE [exc |-> NoExc, pv |-> Put(pv, plate, now)]

(* Mutant: the duplicate test is left out and the entry time is overwritten. *)
add_vehicle_overwrite(pv, capacity, license_plate, now) ==
    LET plate == clean(license_plate) IN
    IF is_full(pv, capacity)
    THEN [exc |-> Exc("FullLotError", "parking lot is full"), pv |-> pv]
    ELSE [exc |-> NoExc, pv |-> Put(pv, plate, now)]

add_vehicle(pv, capacity, license_plate, now) ==
    LET plate == clean(license_plate) IN
    IF is_full(pv, capacity)
    THEN [exc |-> Exc("FullLotError", "parking lot is full"), pv |-> pv]
    ELSE IF is_parked(pv, plate)
    THEN [exc |-> Exc("ParkingError", "is already parked"), pv |-> pv]
    ELSE [exc |-> NoExc, pv |-> Put(pv, plate, now)]

(* Mutant: dict.pop with a default instead of the is_parked test. *)
remove_vehicle_unchecked(pv, license_plate) ==
    LET plate == clean(license_plate) IN
    IF ~is_parked(pv, plate)
    THEN [exc |-> NoExc, pv |-> pv, entry_time |-> 0]
    ELSE [exc |-> NoExc, pv |-> Pop(pv, plate), entry_time |-> pv[plate]]

(* Mutant: the entry time is read with dict.get and the plate stays in the lot. *)
remove_vehicle_keeps_plate(pv, license_plate) ==
    LET plate == clean(license_plate) IN
    IF ~is_parked(pv, plate)
    THEN [exc |-> Exc("VehicleNotParkedError", "not found among parked vehicles"),
          pv |-> pv, entry_time |-> None]
    ELSE [exc |-> NoExc, pv |-> pv, entry_time |-> pv[plate]]

(* Mutant: the earliest entry time in the lot is returned, whose ever it is. *)
remove_vehicle_earliest_entry(pv, license_plate) ==
    LET plate == clean(license_plate)
        times == {pv[k] : k \in DOMAIN pv}
    IN
    IF ~is_parked(pv, plate)
    THEN [exc |-> Exc("VehicleNotParkedError", "not found among parked vehicles"),
          pv |-> pv, entry_time |-> None]
    ELSE [exc |-> NoExc, pv |-> Pop(pv, plate),
          entry_time |-> CHOOSE t \in times : \A u \in times : t <= u]

remove_vehicle(pv, license_plate) ==
    LET plate == clean(license_plate) IN
    IF ~is_parked(pv, plate)
    THEN [exc |-> Exc("VehicleNotParkedError", "not found among parked vehicles"),
          pv |-> pv, entry_time |-> None]
    ELSE [exc |-> NoExc, pv |-> Pop(pv, plate), entry_time |-> pv[plate]]

-----------------------------------------------------------------------------
(* parking_system.py: ParkingSystem.  Each method is a function of the     *)
(* current state and the arguments, giving the exception (raised to the    *)
(* caller unless `caught`), the mapping the method writes and what it      *)
(* reports; the action of the same name with Do in front applies it.       *)

(* Mutant: the driver is looked up with dict.get, without the error. *)
get_driver_by_plate_unchecked(plate) ==
    LET clean_plate == clean(plate) IN
    IF clean_plate \notin DOMAIN registered_drivers
    THEN [exc |-> NoExc, val |-> <<>>]
    ELSE [exc |-> NoExc, val |-> registered_drivers[clean_plate]]

get_driver_by_plate(plate) ==
    LET clean_plate == clean(plate) IN
    IF clean_plate \notin DOMAIN registered_drivers
    THEN [exc |-> Exc("ParkingError", "No driver or pass registered"), val |-> <<>>]
    ELSE [exc |-> NoExc, val |-> registered_drivers[clean_plate]]

(* Mutant: the duplicate check is left out (the plate is registered again). *)
register_without_duplicate_check(name, driver_id, plate0, v_type) ==
    LET plate == clean(plate0)
        failed(e) == [exc |-> e, caught |-> FALSE, registered_drivers |-> registered_drivers]
    IN
    IF validate_plate(plate).exc # NoExc THEN failed(validate_plate(plate).exc)
    ELSE IF validate_id(driver_id).exc # NoExc THEN failed(validate_id(driver_id).exc)
    ELSE [exc |-> NoExc, caught |-> FALSE,
          registered_drivers |->
              Put(registered_drivers, plate, Driver(name, driver_id, Vehicle(plate, v_type)))]

register_driver_and_vehicle(name, driver_id, plate0, v_type) ==
    LET plate == clean(plate0)
        failed(e) == [exc |-> e, caught |-> FALSE, registered_drivers |-> registered_drivers]
    IN
    IF plate \in DOMAIN registered_drivers
    THEN failed(Exc("DuplicatePlateError", "is already registered"))
    ELSE IF validate_plate(plate).exc # NoExc THEN failed(validate_plate(plate).exc)
    ELSE IF validate_id(driver_id).exc # NoExc THEN failed(validate_id(driver_id).exc)
    ELSE [exc |-> NoExc, caught |-> FALSE,
          registered_drivers |->
              Put(registered_drivers, plate, Driver(name, driver_id, Vehicle(plate, v_type)))]

(* Mutant: the test for an already issued pass is left out. *)
issue_pass_again(plate0, pass_type) ==
    LET plate == clean(plate0)
        got == get_driver_by_plate(plate)
        driver == got.val
        pass_id == <<plate, clock>>
        failed(e) == [exc |-> e, caught |-> FALSE, issued_passes |-> issued_passes]
        issued(new_pass) == [exc |-> NoExc, caught |-> FALSE,
                             issued_passes |-> Put(issued_passes, plate, new_pass)]
    IN
    IF got.exc # NoExc THEN failed(got.exc)
    ELSE IF lower(pass_type) = student THEN issued(StudentPass(pass_id, driver))
    ELSE IF lower(pass_type) = staff THEN issued(StaffPass(pass_id, driver))
    ELSE failed(Exc("ValueError", "Invalid pass type."))

issue_pass(plate0, pass_type) ==
    LET plate == clean(plate0)
        got == get_driver_by_plate(plate)
        driver == got.val
        pass_id == <<plate, clock>>
        failed(e) == [exc |-> e, caught |-> FALSE, issued_passes |-> issued_passes]
        issued(new_pass) == [exc |-> NoExc, caught |-> FALSE,
                             issued_passes |-> Put(issued_passes, plate, new_pass)]
    IN
    IF got.exc # NoExc THEN failed(got.exc)
    ELSE IF plate \in DOMAIN issued_passes
    THEN failed(Exc("ParkingError", "pass has already been issued"))
    ELSE IF lower(pass_type) = student THEN issued(StudentPass(pass_id, driver))
    ELSE IF lower(pass_type) = staff THEN issued(StaffPass(pass_id, driver))
    ELSE failed(Exc("ValueError", "Invalid pass type."))

(* Mutant: the lot is asked without the test for an issued pass. *)
park_vehicle_without_pass_check(plate0) ==
    LET plate == clean(plate0)
        added == add_vehicle(parked_vehicles, lot_capacity, plate, clock)
    IN
    [exc |-> added.exc, caught |-> IsParkingError(added.exc),
     parked_vehicles |-> added.pv]

park_vehicle(plate0) ==
    LET plate == clean(plate0)
        added == add_vehicle(parked_vehicles, lot_capacity, plate, clock)
    IN
    IF plate \notin DOMAIN issued_passes
    THEN [exc |-> Exc("ParkingError", "does not have an active parking pass"),
          caught |-> TRUE, parked_vehicles |-> parked_vehicles]
    ELSE [exc |-> added.exc, caught |-> IsParkingError(added.exc),
          parked_vehicles |-> added.pv]

NoReport == <<>>

remove_vehicle_and_fee(plate0, entry_time_override) ==
    LET plate == clean(plate0)
        removed == remove_vehicle(parked_vehicles, plate)
        exit_time == clock
        entry_time == IF entry_time_override # None THEN entry_time_override
                      ELSE removed.entry_time
        hours_parked == hours_between(entry_time, exit_time)
        parking_pass == issued_passes[plate]
        billed == calculate_fee(parking_pass, hours_parked)
    IN
    IF removed.exc # NoExc
    THEN [exc |-> removed.exc, caught |-> TRUE, parked_vehicles |-> removed.pv,
          report |-> NoReport]
    ELSE IF plate \notin DOMAIN issued_passes
    THEN [exc |-> Exc("AttributeError", "'NoneType' object has no attribute 'calculate_fee'"),
          caught |-> TRUE, parked_vehicles |-> removed.pv, report |-> NoReport]
    ELSE IF billed.exc # NoExc
    THEN [exc |-> billed.exc, caught |-> TRUE, parked_vehicles |-> removed.pv,
          report |-> NoReport]
    ELSE [exc |-> NoExc, caught |-> FALSE, parked_vehicles |-> removed.pv,
          report |-> <<[plate |-> plate, entry_time |-> entry_time,
                        exit_time |-> exit_time, hours_parked |-> hours_parked,
                        pass_type |-> parking_pass.cls, fee_rate |-> parking_pass.fee_rate,
                        fee |-> billed.fee]>>]

(* Mutant: the status is not looked up in the lot. *)
list_active_passes_all_parked ==
    [exc |-> NoExc, caught |-> FALSE,
     report |-> {[plate |-> plate, pass_id |-> issued_passes[plate].pass_id,
                  pass_type |-> issued_passes[plate].cls,
                  full_name |-> registered_drivers[plate].full_name,
                  park_status |-> "Parked"] : plate \in DOMAIN issued_passes}]

(* The lines list_active_passes prints, one for each item of _issued_passes; *)
(* driver.full_name of a driver that .get() did not find is an AttributeError. *)
list_active_passes ==
    IF \E plate \in DOMAIN issued_passes : plate \notin DOMAIN registered_drivers
    THEN [exc |-> Exc("AttributeError", "'NoneType' object has no attribute 'full_name'"),
          caught |-> FALSE, report |-> {}]
    ELSE [exc |-> NoExc, caught |-> FALSE,
          report |-> {[plate |-> plate, pass_id |-> issued_passes[plate].pass_id,
                       pass_type |-> issued_passes[plate].cls,
                       full_name |-> registered_drivers[plate].full_name,
                       park_status |-> IF is_parked(parked_vehicles, plate)
                                       THEN "Parked" ELSE "Not Parked"] :
                          plate \in DOMAIN issued_passes}]

(* The classes of the exceptions that derive from Exception. *)
ExceptionClasses == ParkingErrors \cup {"ValueError", "AttributeError", "KeyError"}

(* Mutant: the loop has the handler `except ParkingError` alone. *)
run_menu_except_parking_only(e) ==
    IF IsParkingError(e) THEN "Operation Error" ELSE "uncaught"

(* run_menu: which of the loop's handlers takes an exception raised by the call. *)
run_menu_except(e) ==
    IF IsParkingError(e) \/ e.type = "ValueError" THEN "Operation Error"
    ELSE IF e.type \in ExceptionClasses THEN "Unexpected General Error"
    ELSE "uncaught"

(* parking_management_system.py, main loop: `except Exception`. *)
pms_main_except(e) ==
    IF e.type \in ExceptionClasses THEN "Operation Failed" ELSE "uncaught"

(* Where the menu loop is after a call: back at the menu, or ended by an   *)
(* exception that no handler of the loop took.                             *)
AfterCall(result) ==
    IF result.exc = NoExc \/ result.caught THEN "menu"
    ELSE IF prog = "parking_system"
    THEN (IF run_menu_except(result.exc) # "uncaught" THEN "menu" ELSE "crashed")
    ELSE (IF pms_main_except(result.exc) # "uncaught" THEN "menu" ELSE "crashed")

(* What the model keeps of a call: the method, the exception it ended with *)
(* and where the menu loop went after it.                                  *)
Call(op, result) ==
    [op |-> op, exc |-> result.exc, caught |-> result.caught, loop |-> AfterCall(result)]

DoRegisterDriverAndVehicle(name, driver_id, plate, v_type) ==
    LET r == register_driver_and_vehicle(name, driver_id, plate, v_type) IN
    /\ prog = "parking_system"
    /\ last.loop = "menu"
    /\ registered_drivers' = r.registered_drivers
    /\ last' = Call("register_driver_and_vehicle", r)
    /\ UNCHANGED <<prog, other_vars, clock, lot_capacity, parked_vehicles, issued_passes, pms_vars>>

DoIssuePass(plate, pass_type) ==
    LET r == issue_pass(plate, pass_type) IN
    /\ prog = "parking_system"
    /\ last.loop = "menu"
    /\ issued_passes' = r.issued_passes
    /\ last' = Call("issue_pass", r)
    /\ UNCHANGED <<prog, other_vars, clock, lot_capacity, parked_vehicles, registered_drivers, pms_vars>>

DoParkVehicle(plate) ==
    LET r == park_vehicle(plate) IN
    /\ prog = "parking_system"
    /\ last.loop = "menu"
    /\ parked_vehicles' = r.parked_vehicles
    /\ last' = Call("park_vehicle", r)
    /\ UNCHANGED <<prog, other_vars, clock, lot_capacity, registered_drivers, issued_passes, pms_vars>>

DoRemoveVehicleAndFee(plate, entry_time_override) ==
    LET r == remove_vehicle_and_fee(plate, entry_time_override) IN
    /\ prog = "parking_system"
    /\ last.loop = "menu"
    /\ parked_vehicles' = r.parked_vehicles
    /\ last' = Call("remove_vehicle_and_fee", r)
    /\ UNCHANGED <<prog, other_vars, clock, lot_capacity, registered_drivers, issued_passes, pms_vars>>

DoListActivePasses ==
    LET r == list_active_passes IN
    /\ prog = "parking_system"
    /\ last.loop = "menu"
    /\ last' = Call("list_active_passes", r)
    /\ UNCHANGED <<prog, other_vars, clock, lot_capacity, ps_vars, pms_vars>>

-----------------------------------------------------------------------------
(* parking_management_system.py: Vehicle, Driver, the passes *)

pms_sanitize_plate(plate) ==
    IF plate = <<>>
    THEN [exc |-> Exc("ValueError", "Invalid license plate format."), val |-> <<>>]
    ELSE [exc |-> NoExc, val |-> clean(plate)]

pms_Vehicle(license_plate, vehicle_type) ==
    [license_plate |-> pms_sanitize_plate(license_plate).val,
     vehicle_type |-> vehicle_type]

pms_Driver(full_name, driver_id, vehicle) ==
    [full_name |-> full_name, driver_id |-> driver_id, vehicle |-> vehicle]

pms_STUDENT_RATE == 2

pms_STAFF_RATE == 3

pms_StudentPass(pass_id, driver) ==
    [cls |-> "StudentPass", pass_id |-> pass_id, driver |-> driver,
     fee_rate |-> pms_STUDENT_RATE]

pms_StaffPass(pass_id, driver) ==
    [cls |-> "StaffPass", pass_id |-> pass_id, driver |-> driver,
     fee_rate |-> pms_STAFF_RATE]

max(a, b) == IF a >= b THEN a ELSE b

pms_StudentPass_calculate_fee(self, hours_parked) ==
    max(0, hours_parked * self.fee_rate)

(* Mutant: the free first hour is subtracted without max(0.0, ...). *)
pms_StaffPass_calculate_fee_unclamped(self, hours_parked) ==
    LET chargeable_hours == hours_parked - 1 * HourScale IN
    chargeable_hours * self.fee_rate

pms_StaffPass_calculate_fee(self, hours_parked) ==
    LET chargeable_hours == max(0, hours_parked - 1 * HourScale) IN
    chargeable_hours * self.fee_rate

pms_calculate_fee(self, hours_parked) ==
    IF self.cls = "StudentPass" THEN pms_StudentPass_calculate_fee(self, hours_parked)
    ELSE pms_StaffPass_calculate_fee(self, hours_parked)

-----------------------------------------------------------------------------
(* parking_management_system.py: ParkingSystem *)

pms_register_driver(name, d_id, plate, v_type) ==
    LET sanitized == pms_sanitize_plate(plate)
        vehicle == pms_Vehicle(plate, v_type)
    IN
    IF sanitized.exc # NoExc
    THEN [exc |-> sanitized.exc, caught |-> FALSE, drivers |-> pms_drivers]
    ELSE [exc |-> NoExc, caught |-> FALSE,
          drivers |-> Put(pms_drivers, vehicle.license_plate,
                          pms_Driver(name, d_id, vehicle))]

pms_issue_pass(plate, p_type) ==
    LET sanitized == pms_sanitize_plate(plate)
        clean_plate == sanitized.val
        driver == pms_drivers[clean_plate]
        pass_id == <<"PASS", clean_plate, strftime_MS(clock)>>
        failed(e) == [exc |-> e, caught |-> FALSE, passes |-> pms_passes]
    IN
    IF sanitized.exc # NoExc THEN failed(sanitized.exc)
    ELSE IF clean_plate \notin DOMAIN pms_drivers
    THEN failed(Exc("ParkingError", "Driver must be registered first!"))
    ELSE IF lower(p_type) = student
    THEN [exc |-> NoExc, caught |-> FALSE,
          passes |-> Put(pms_passes, clean_plate, pms_StudentPass(pass_id, driver))]
    ELSE [exc |-> NoExc, caught |-> FALSE,
          passes |-> Put(pms_passes, clean_plate, pms_StaffPass(pass_id, driver))]

(* Mutant: the entry is recorded without the test for a pass. *)
pms_process_entry_without_pass_check(plate) ==
    LET sanitized == pms_sanitize_plate(plate)
        clean_plate == sanitized.val
        failed(e) == [exc |-> e, caught |-> FALSE, parked_vehicles |-> pms_parked_vehicles]
    IN
    IF sanitized.exc # NoExc THEN failed(sanitized.exc)
    ELSE IF Cardinality(DOMAIN pms_parked_vehicles) >= lot_capacity
    THEN failed(Exc("FullLotError", "The parking lot is full."))
    ELSE [exc |-> NoExc, caught |-> FALSE,
          parked_vehicles |-> Put(pms_parked_vehicles, clean_plate, clock)]

pms_process_entry(plate) ==
    LET sanitized == pms_sanitize_plate(plate)
        clean_plate == sanitized.val
        failed(e) == [exc |-> e, caught |-> FALSE, parked_vehicles |-> pms_parked_vehicles]
    IN
    IF sanitized.exc # NoExc THEN failed(sanitized.exc)
    ELSE IF clean_plate \notin DOMAIN pms_passes
    THEN failed(Exc("ParkingError", "No active pass found!"))
    ELSE IF Cardinality(DOMAIN pms_parked_vehicles) >= lot_capacity
    THEN failed(Exc("FullLotError", "The parking lot is full."))
    ELSE [exc |-> NoExc, caught |-> FALSE,
          parked_vehicles |-> Put(pms_parked_vehicles, clean_plate, clock)]

pms_process_exit(plate) ==
    LET sanitized == pms_sanitize_plate(plate)
        clean_plate == sanitized.val
        entry_time == pms_parked_vehicles[clean_plate]
        duration == hours_between(entry_time, clock)
        fee == pms_calculate_fee(pms_passes[clean_plate], duration)
    IN
    IF sanitized.exc # NoExc
    THEN [exc |-> sanitized.exc, caught |-> FALSE,
          parked_vehicles |-> pms_parked_vehicles, report |-> NoReport]
    ELSE IF clean_plate \notin DOMAIN pms_parked_vehicles
    THEN [exc |-> Exc("VehicleNotParkedError", "Vehicle is not in the lot."),
          caught |-> FALSE, parked_vehicles |-> pms_parked_vehicles,
          report |-> NoReport]
    ELSE IF clean_plate \notin DOMAIN pms_passes
    THEN [exc |-> Exc("KeyError", "self._passes[clean_plate]"), caught |-> FALSE,
          parked_vehicles |-> Pop(pms_parked_vehicles, clean_plate),
          report |-> NoReport]
    ELSE [exc |-> NoExc, caught |-> FALSE,
          parked_vehicles |-> Pop(pms_parked_vehicles, clean_plate),
          report |-> <<[plate |-> clean_plate, duration |-> duration,
                        pass_type |-> pms_passes[clean_plate].cls, fee |-> fee]>>]

DoPmsRegisterDriver(name, d_id, plate, v_type) ==
    LET r == pms_register_driver(name, d_id, plate, v_type) IN
    /\ prog = "parking_management_system"
    /\ last.loop = "menu"
    /\ pms_drivers' = r.drivers
    /\ last' = Call("register_driver", r)
    /\ UNCHANGED <<prog, other_vars, clock, lot_capacity, ps_vars, pms_parked_vehicles, pms_passes>>

DoPmsIssuePass(plate, p_type) ==
    LET r == pms_issue_pass(plate, p_type) IN
    /\ prog = "parking_management_system"
    /\ last.loop = "menu"
    /\ pms_passes' = r.passes
    /\ last' = Call("issue_pass", r)
    /\ UNCHANGED <<prog, other_vars, clock, lot_capacity, ps_vars, pms_parked_vehicles, pms_drivers>>

DoPmsProcessEntry(plate) ==
    LET r == pms_process_entry(plate) IN
    /\ prog = "parking_management_system"
    /\ last.loop = "menu"
    /\ pms_parked_vehicles' = r.parked_vehicles
    /\ last' = Call("process_entry", r)
    /\ UNCHANGED <<prog, other_vars, clock, lot_capacity, ps_vars, pms_drivers, pms_passes>>

DoPmsProcessExit(plate) ==
    LET r == pms_process_exit(plate) IN
    /\ prog = "parking_management_system"
    /\ last.loop = "menu"
    /\ pms_parked_vehicles' = r.parked_vehicles
    /\ last' = Call("process_exit", r)
    /\ UNCHANGED <<prog, other_vars, clock, lot_capacity, ps_vars, pms_drivers, pms_passes>>

-----------------------------------------------------------------------------
(* The menu loops: the choices that call no method of the system. *)

(* run_menu, choice '6': the loop ends with break. *)
DoExit ==
    /\ prog = "parking_system"
    /\ last.loop = "menu"
    /\ last' = [op |-> "exit", exc |-> NoExc, caught |-> FALSE, loop |-> "ended"]
    /\ UNCHANGED <<prog, other_vars, clock, lot_capacity, ps_vars, pms_vars>>

(* run_menu, any other choice: "Invalid choice." *)
DoInvalidChoice ==
    /\ prog = "parking_system"
    /\ last.loop = "menu"
    /\ last' = [op |-> "invalid_choice", exc |-> NoExc, caught |-> FALSE, loop |-> "menu"]
    /\ UNCHANGED <<prog, other_vars, clock, lot_capacity, ps_vars, pms_vars>>

(* parking_management_system.py, choice '5': the loop ends with break. *)
DoPmsExit ==
    /\ prog = "parking_management_system"
    /\ last.loop = "menu"
    /\ last' = [op |-> "exit", exc |-> NoExc, caught |-> FALSE, loop |-> "ended"]
    /\ UNCHANGED <<prog, other_vars, clock, lot_capacity, ps_vars, pms_vars>>

(* parking_management_system.py, any other choice: no branch is taken. *)
DoPmsInvalidChoice ==
    /\ prog = "parking_management_system"
    /\ last.loop = "menu"
    /\ last' = [op |-> "invalid_choice", exc |-> NoExc, caught |-> FALSE, loop |-> "menu"]
    /\ UNCHANGED <<prog, other_vars, clock, lot_capacity, ps_vars, pms_vars>>

-----------------------------------------------------------------------------
(* The wall clock moves on between calls. *)

Tick ==
    /\ last.loop = "menu"
    /\ clock < MaxTime
    /\ clock' = clock + 1
    /\ UNCHANGED <<prog, other_vars, lot_capacity, ps_vars, pms_vars, last>>

-----------------------------------------------------------------------------
(* Construction: ParkingSystem(lot_name, lot_capacity) of the script that  *)
(* runs; the mappings of the other script stay empty.                      *)

InitCall == [op |-> "__init__", exc |-> NoExc, caught |-> FALSE, loop |-> "menu"]

(* No call of calculate_fee on its own is under way. *)
NoFeeCall == <<>>

InitPS ==
    /\ prog = "parking_system"
    /\ clock = 0
    /\ lot_capacity \in {c \in CapacityInputs : validate_capacity(c).exc = NoExc}
    /\ parked_vehicles = EmptyDict
    /\ registered_drivers = EmptyDict
    /\ issued_passes = EmptyDict
    /\ pms_parked_vehicles = EmptyDict
    /\ pms_drivers = EmptyDict
    /\ pms_passes = EmptyDict
    /\ fee_call = NoFeeCall
    /\ vault = EmptyDict
    /\ doctors = EmptyDict
    /\ patients = EmptyDict
    /\ last = InitCall

InitPMS ==
    /\ prog = "parking_management_system"
    /\ clock = 0
    /\ lot_capacity \in CapacityInputs
    /\ pms_parked_vehicles = EmptyDict
    /\ pms_drivers = EmptyDict
    /\ pms_passes = EmptyDict
    /\ parked_vehicles = EmptyDict
    /\ registered_drivers = EmptyDict
    /\ issued_passes = EmptyDict
    /\ fee_call = NoFeeCall
    /\ vault = EmptyDict
    /\ doctors = EmptyDict
    /\ patients = EmptyDict
    /\ last = InitCall

Init == InitPS \/ InitPMS

NextPS ==
    \/ \E d \in DriverInputs, plate \in PlateInputs, v_type \in VehicleTypeInputs :
           DoRegisterDriverAndVehicle(d[1], d[2], plate, v_type)
    \/ \E plate \in PlateInputs, pass_type \in PassTypeInputs : DoIssuePass(plate, pass_type)
    \/ \E plate \in PlateInputs : DoParkVehicle(plate)
    \/ \E plate \in PlateInputs, entry_time_override \in OverrideInputs :
           DoRemoveVehicleAndFee(plate, entry_time_override)
    \/ DoListActivePasses
    \/ DoExit
    \/ DoInvalidChoice
    \/ Tick

NextPMS ==
    \/ \E d \in DriverInputs, plate \in PmsPlateInputs, v_type \in VehicleTypeInputs :
           DoPmsRegisterDriver(d[1], d[2], plate, v_type)
    \/ \E plate \in PmsPlateInputs, p_type \in PassTypeInputs : DoPmsIssuePass(plate, p_type)
    \/ \E plate \in PmsPlateInputs : DoPmsProcessEntry(plate)
    \/ \E plate \in PmsPlateInputs : DoPmsProcessExit(plate)
    \/ DoPmsExit
    \/ DoPmsInvalidChoice
    \/ Tick

Next == NextPS \/ NextPMS

-----------------------------------------------------------------------------
(* calculate_fee on its own: a pass of one of the five classes is built    *)
(* and its calculate_fee is called once with some number of hours,         *)
(* negative ones included.  hours_parked and the fee are in 1/HourScale.   *)

HoursInputs == (0 - MaxHours) .. MaxHours

AnyDriver == Driver("Ann", "D1", Vehicle(AA11, "car"))

AnyPmsDriver == pms_Driver("Ann", "D1", pms_Vehicle(AA11, "car"))

PassInputs ==
    {[script |-> "parking_system", self |-> p] :
         p \in {ParkingPass("ParkingPass", "P0", AnyDriver, STUDENT_RATE),
                StudentPass("P1", AnyDriver), StaffPass("P2", AnyDriver)}}
    \cup
    {[script |-> "parking_management_system", self |-> p] :
         p \in {pms_StudentPass("P1", AnyPmsDriver), pms_StaffPass("P2", AnyPmsDriver)}}

(* calculate_fee has not returned yet. *)
NoResult == [exc |-> Exc("pending", ""), fee |-> 0]

InitFee ==
    /\ prog = "calculate_fee"
    /\ clock = 0
    /\ lot_capacity = None
    /\ parked_vehicles = EmptyDict
    /\ registered_drivers = EmptyDict
    /\ issued_passes = EmptyDict
    /\ pms_parked_vehicles = EmptyDict
    /\ pms_drivers = EmptyDict
    /\ pms_passes = EmptyDict
    /\ fee_call \in {[script |-> p.script, self |-> p.self, hours_parked |-> h,
                       result |-> NoResult] : p \in PassInputs, h \in HoursInputs}
    /\ vault = EmptyDict
    /\ doctors = EmptyDict
    /\ patients = EmptyDict
    /\ last = InitCall

(* parking_system.py: parking_pass.calculate_fee(hours_parked) *)
DoCalculateFee ==
    /\ prog = "calculate_fee"
    /\ fee_call.script = "parking_system"
    /\ fee_call.result = NoResult
    /\ fee_call' = [fee_call EXCEPT
                        !.result = calculate_fee(fee_call.self, fee_call.hours_parked)]
    /\ last' = [op |-> "calculate_fee", exc |-> fee_call'.result.exc, caught |-> FALSE]
    /\ UNCHANGED <<prog, clock, lot_capacity, ps_vars, pms_vars, atm_vars, hospital_vars>>

(* parking_management_system.py: self._passes[clean_plate].calculate_fee(duration) *)
DoPmsCalculateFee ==
    /\ prog = "calculate_fee"
    /\ fee_call.script = "parking_management_system"
    /\ fee_call.result = NoResult
    /\ fee_call' = [fee_call EXCEPT
                        !.result = [exc |-> NoExc,
                                    fee |-> pms_calculate_fee(fee_call.self,
                                                              fee_call.hours_parked)]]
    /\ last' = [op |-> "calculate_fee", exc |-> NoExc, caught |-> FALSE]
    /\ UNCHANGED <<prog, clock, lot_capacity, ps_vars, pms_vars, atm_vars, hospital_vars>>

NextFee == DoCalculateFee \/ DoPmsCalculateFee

-----------------------------------------------------------------------------
(* atm_management_system.py and atm_simulation.py: the accounts.  An       *)
(* amount is what float(input(...)) gives, so it may be inf, -inf or nan;  *)
(* a finite float is modelled by an integer number of credits.             *)

MaxBalance == 3

Float(n) == [kind |-> "finite", value |-> n]

Inf == [kind |-> "inf", value |-> 0]

NegInf == [kind |-> "-inf", value |-> 0]

NaN == [kind |-> "nan", value |-> 0]

(* a < b : every comparison with nan is False *)
float_lt(a, b) ==
    /\ a.kind # "nan"
    /\ b.kind # "nan"
    /\ \/ a.kind = "-inf" /\ b.kind # "-inf"
       \/ a.kind = "finite" /\ b.kind = "inf"
       \/ a.kind = "finite" /\ b.kind = "finite" /\ a.value < b.value

(* a == b *)
float_eq(a, b) == a.kind # "nan" /\ b.kind # "nan" /\ a = b

(* a <= b *)
float_le(a, b) == float_lt(a, b) \/ float_eq(a, b)

(* a > b *)
float_gt(a, b) == float_lt(b, a)

(* -a *)
float_neg(a) ==
    CASE a.kind = "finite" -> Float(0 - a.value)
      [] a.kind = "inf" -> NegInf
      [] a.kind = "-inf" -> Inf
      [] OTHER -> NaN

(* a + b : inf + -inf is nan *)
float_add(a, b) ==
    IF a.kind = "nan" \/ b.kind = "nan" THEN NaN
    ELSE IF a.kind = "finite" /\ b.kind = "finite" THEN Float(a.value + b.value)
    ELSE IF a.kind = "finite" THEN b
    ELSE IF b.kind = "finite" THEN a
    ELSE IF a.kind = b.kind THEN a
    ELSE NaN

(* a - b *)
float_sub(a, b) == float_add(a, float_neg(b))

(* BaseAccount.deposit *)
BaseAccount_deposit(balance, amount) ==
    IF float_le(amount, Float(0))
    THEN [exc |-> Exc("ValueError", "Deposit amount must be positive."),
          balance |-> balance]
    ELSE [exc |-> NoExc, balance |-> float_add(balance, amount)]

(* StandardAccount.withdraw *)
StandardAccount_withdraw(balance, amount) ==
    IF float_gt(amount, balance)
    THEN [exc |-> Exc("InsufficientFundsError", "Requested | Available"),
          balance |-> balance]
    ELSE IF float_le(amount, Float(0))
    THEN [exc |-> Exc("ValueError", "Withdrawal amount must be positive."),
          balance |-> balance]
    ELSE [exc |-> NoExc, balance |-> float_sub(balance, amount)]

(* atm_simulation.py Account.deposit : a refusal is a printed line *)
Account_deposit(balance, amount) ==
    IF float_gt(amount, Float(0))
    THEN [exc |-> NoExc, balance |-> float_add(balance, amount)]
    ELSE [exc |-> NoExc, balance |-> balance]

(* atm_simulation.py Account.withdraw *)
Account_withdraw(balance, amount) ==
    IF float_lt(Float(0), amount) /\ float_le(amount, balance)
    THEN [exc |-> NoExc, balance |-> float_sub(balance, amount)]
    ELSE [exc |-> NoExc, balance |-> balance]

(* The cards of ArasakaATM._vault and of ATM.accounts. *)
VaultCards == {"77-V", "88-JACKIE"}

AccountCards == {"123456", "987654"}

(* float(input(...)) *)
AmountInputs == {Float(n) : n \in -1..2} \cup {Inf, NegInf, NaN}

(* initial_balance: some non-negative number of credits *)
BalanceInputs == {Float(0), Float(2)}

InitATM ==
    /\ \/ prog = "atm_management_system" /\ vault \in [VaultCards -> BalanceInputs]
       \/ prog = "atm_simulation" /\ vault \in [AccountCards -> BalanceInputs]
    /\ clock = 0
    /\ lot_capacity = 1
    /\ parked_vehicles = EmptyDict
    /\ registered_drivers = EmptyDict
    /\ issued_passes = EmptyDict
    /\ pms_parked_vehicles = EmptyDict
    /\ pms_drivers = EmptyDict
    /\ pms_passes = EmptyDict
    /\ fee_call = NoFeeCall
    /\ doctors = EmptyDict
    /\ patients = EmptyDict
    /\ last = InitCall

(* The balance stays in the modelled range. *)
InRange(balance) == balance.kind = "finite" => balance.value <= MaxBalance

(* One call of a method of the account of a card. *)
AccountCall(op, card, result) ==
    /\ InRange(result.balance)
    /\ vault' = [vault EXCEPT ![card] = result.balance]
    /\ last' = [op |-> op, exc |-> result.exc, caught |-> FALSE, loop |-> "menu"]
    /\ UNCHANGED <<prog, clock, lot_capacity, ps_vars, pms_vars, fee_call,
                   hospital_vars>>

DoDeposit(card, amount) ==
    /\ prog = "atm_management_system"
    /\ card \in DOMAIN vault
    /\ AccountCall("deposit", card, BaseAccount_deposit(vault[card], amount))

DoWithdraw(card, amount) ==
    /\ prog = "atm_management_system"
    /\ card \in DOMAIN vault
    /\ AccountCall("withdraw", card, StandardAccount_withdraw(vault[card], amount))

DoAccountDeposit(card, amount) ==
    /\ prog = "atm_simulation"
    /\ card \in DOMAIN vault
    /\ AccountCall("deposit", card, Account_deposit(vault[card], amount))

DoAccountWithdraw(card, amount) ==
    /\ prog = "atm_simulation"
    /\ card \in DOMAIN vault
    /\ AccountCall("withdraw", card, Account_withdraw(vault[card], amount))

NextATM ==
    \/ \E card \in VaultCards, amount \in AmountInputs : DoDeposit(card, amount)
    \/ \E card \in VaultCards, amount \in AmountInputs : DoWithdraw(card, amount)
    \/ \E card \in AccountCards, amount \in AmountInputs : DoAccountDeposit(card, amount)
    \/ \E card \in AccountCards, amount \in AmountInputs : DoAccountWithdraw(card, amount)

(* The accounts of either ATM script. *)
SpecATM == InitATM /\ [][NextATM]_vars

-----------------------------------------------------------------------------
(* hospital_management_system.py: the registry of doctors and patients.    *)
(* Every Doctor(...) is a new object: obj tells two objects apart even     *)
(* when all their fields agree.                                             *)

MaxObjects == 3

Doctor(obj, name, age, doctor_id, specialty) ==
    [obj |-> obj, name |-> name, age |-> age, person_id |-> doctor_id,
     specialty |-> specialty]

(* Optional[Doctor]: None is the empty set, a reference is {doctor} *)
NoDoctor == {}

Patient(name, age, patient_id, ailment) ==
    [name |-> name, age |-> age, person_id |-> patient_id, ailment |-> ailment,
     assigned_doctor |-> NoDoctor]

(* Patient.assign_doctor *)
assign_doctor(patient, doctor) == [patient EXCEPT !.assigned_doctor = {doctor}]

(* The Doctor objects still referenced, from the registry or a patient. *)
DoctorObjects ==
    {doctors[d] : d \in DOMAIN doctors}
        \cup UNION {patients[p].assigned_doctor : p \in DOMAIN patients}

(* The object a constructor call creates next. *)
NewObject ==
    1 + Cardinality({n \in 1..MaxObjects : \E d \in DoctorObjects : d.obj >= n})

(* HospitalSystem.add_doctor *)
add_doctor(name, age, d_id, specialty) ==
    [exc |-> NoExc,
     doctors |-> Put(doctors, d_id, Doctor(NewObject, name, age, d_id, specialty)),
     patients |-> patients]

(* HospitalSystem.admit_patient *)
admit_patient(name, age, p_id, ailment) ==
    [exc |-> NoExc,
     doctors |-> doctors,
     patients |-> Put(patients, p_id, Patient(name, age, p_id, ailment))]

(* HospitalSystem.assign_patient_to_doctor *)
assign_patient_to_doctor(p_id, d_id) ==
    IF p_id \notin DOMAIN patients
    THEN [exc |-> Exc("PersonNotFoundError", "CRITICAL: Patient ID not found in database."),
          doctors |-> doctors, patients |-> patients]
    ELSE IF d_id \notin DOMAIN doctors
    THEN [exc |-> Exc("PersonNotFoundError", "CRITICAL: Specialist ID not found in database."),
          doctors |-> doctors, patients |-> patients]
    ELSE [exc |-> NoExc,
          doctors |-> doctors,
          patients |-> [patients EXCEPT ![p_id] = assign_doctor(@, doctors[d_id])]]

DoctorNameInputs == {"Viktor Vektor", "Lucy Kushinada"}

DoctorIdInputs == {"DOC-001", "DOC-002"}

PatientNameInputs == {"V (Vincent)"}

PatientIdInputs == {"PAT-77", "PAT-88"}

InitHospital ==
    /\ prog = "hospital_management_system"
    /\ doctors = EmptyDict
    /\ patients = EmptyDict
    /\ clock = 0
    /\ lot_capacity = 1
    /\ parked_vehicles = EmptyDict
    /\ registered_drivers = EmptyDict
    /\ issued_passes = EmptyDict
    /\ pms_parked_vehicles = EmptyDict
    /\ pms_drivers = EmptyDict
    /\ pms_passes = EmptyDict
    /\ fee_call = NoFeeCall
    /\ vault = EmptyDict
    /\ last = InitCall

(* One call of a method of the HospitalSystem. *)
HospitalCall(op, result) ==
    /\ doctors' = result.doctors
    /\ patients' = result.patients
    /\ last' = [op |-> op, exc |-> result.exc, caught |-> FALSE, loop |-> "menu"]
    /\ UNCHANGED <<prog, clock, lot_capacity, ps_vars, pms_vars, fee_call,
                   atm_vars>>

DoAddDoctor(name, d_id) ==
    /\ prog = "hospital_management_system"
    /\ NewObject <= MaxObjects
    /\ HospitalCall("add_doctor", add_doctor(name, 45, d_id, "Cyberware Surgery"))

DoAdmitPatient(name, p_id) ==
    /\ prog = "hospital_management_system"
    /\ HospitalCall("admit_patient", admit_patient(name, 27, p_id, "Relic Corruption"))

DoAssignPatientToDoctor(p_id, d_id) ==
    /\ prog = "hospital_management_system"
    /\ HospitalCall("assign_patient_to_doctor", assign_patient_to_doctor(p_id, d_id))

NextHospital ==
    \/ \E name \in DoctorNameInputs, d_id \in DoctorIdInputs : DoAddDoctor(name, d_id)
    \/ \E name \in PatientNameInputs, p_id \in PatientIdInputs : DoAdmitPatient(name, p_id)
    \/ \E p_id \in PatientIdInputs, d_id \in DoctorIdInputs :
           DoAssignPatientToDoctor(p_id, d_id)

(* The hospital registry. *)
SpecHospital == InitHospital /\ [][NextHospital]_vars

(* Either script. *)
Spec == Init /\ [][Next]_vars

(* calculate_fee alone, of either script. *)
SpecFee == InitFee /\ [][NextFee]_vars

(* parking_system.py alone. *)
SpecPS == InitPS /\ [][NextPS]_vars

(* parking_management_system.py alone. *)
SpecPMS == InitPMS /\ [][NextPMS]_vars

-----------------------------------------------------------------------------
(* Shorthands used by the properties. *)

PS == prog = "parking_system"

PMS == prog = "parking_management_system"

parked == DOMAIN parked_vehicles

pms_parked == DOMAIN pms_parked_vehicles

-----------------------------------------------------------------------------
(* C1: in a system built with capacity >= 1 the number of parked plates    *)
(* never exceeds the capacity, whatever calls were made, in both scripts.  *)
C1_ParkedNeverExceedsCapacity ==
    /\ lot_capacity >= 1
    /\ PS => Cardinality(parked) <= lot_capacity
    /\ PMS => Cardinality(pms_parked) <= lot_capacity

(* A full lot of two cars has just turned a third entry away. *)
C1_Witness ==
    /\ PMS
    /\ lot_capacity = 2
    /\ Cardinality(pms_parked) = lot_capacity
    /\ last.op = "process_entry"
    /\ last.exc.type = "FullLotError"

-----------------------------------------------------------------------------
(* Which method a step has called. *)

Called(op) == last'.op = op

-----------------------------------------------------------------------------
(* C2: parking_system.py: register_driver_and_vehicle on a plate whose     *)
(* normalized form is already registered raises DuplicatePlateError and    *)
(* leaves the registered drivers, the issued passes and the lot unchanged. *)
C2_DuplicateRegistrationRejected ==
    [][(PS /\ Called("register_driver_and_vehicle"))
       => \A p \in PlateInputs :
              clean(p) \in DOMAIN registered_drivers
              => \A d \in DriverInputs, t \in VehicleTypeInputs :
                     DoRegisterDriverAndVehicle(d[1], d[2], p, t)
                     => /\ last'.exc.type = "DuplicatePlateError"
                        /\ ~last'.caught
                        /\ UNCHANGED <<registered_drivers, issued_passes,
                                       parked_vehicles, lot_capacity>>]_vars

(* A registration was refused as a duplicate: AA11 is registered, BB22 is not. *)
C2_Witness ==
    /\ PS
    /\ last.op = "register_driver_and_vehicle"
    /\ last.exc.type = "DuplicatePlateError"
    /\ AA11 \in DOMAIN registered_drivers
    /\ BB22 \notin DOMAIN registered_drivers

-----------------------------------------------------------------------------
(* C3: parking_management_system.py: register_driver on a plate whose      *)
(* normalized form is already registered raises DuplicatePlateError and    *)
(* leaves the driver stored for that plate unchanged.                      *)
C3_PmsDuplicateRegistrationRejected ==
    [][(PMS /\ Called("register_driver"))
       => \A p \in PmsPlateInputs :
              (clean(p) # <<>> /\ clean(p) \in DOMAIN pms_drivers)
              => \A d \in DriverInputs, t \in VehicleTypeInputs :
                     DoPmsRegisterDriver(d[1], d[2], p, t)
                     => /\ last'.exc.type = "DuplicatePlateError"
                        /\ pms_drivers'[clean(p)] = pms_drivers[clean(p)]]_vars

-----------------------------------------------------------------------------
(* C4: parking_system.py: while the number of parked plates equals the     *)
(* capacity, ParkingLot.add_vehicle raises FullLotError for every plate,   *)
(* parked or not, and leaves the plate -> entry time mapping as it is; and *)
(* park_vehicle for a plate that holds a pass leaves the lot unchanged.    *)
C4_FullLotRejectsEveryPlate ==
    [][(PS /\ Cardinality(parked) = lot_capacity)
       => /\ \A p \in PlateInputs :
                 LET added == add_vehicle(parked_vehicles, lot_capacity, p, clock) IN
                 /\ added.exc.type = "FullLotError"
                 /\ added.pv = parked_vehicles
          /\ Called("park_vehicle")
             => \A p \in PlateInputs :
                    (clean(p) \in DOMAIN issued_passes /\ DoParkVehicle(p))
                    => /\ last'.exc.type = "FullLotError"
                       /\ last'.caught
                       /\ UNCHANGED ps_vars]_vars

(* With one place taken by AA11, BB22 (which holds a pass) was turned away. *)
C4_Witness ==
    /\ PS
    /\ Cardinality(parked) = lot_capacity
    /\ parked = {AA11}
    /\ BB22 \in DOMAIN issued_passes
    /\ last.op = "park_vehicle"
    /\ last.exc.type = "FullLotError"

-----------------------------------------------------------------------------
(* C5 as stated: with capacity 1 and AA11 registered, passed and parked    *)
(* (the only way AA11 gets into the lot), parking BB22 once it has been    *)
(* registered fails with FullLotError and BB22 is not parked; removing     *)
(* AA11 then succeeds, empties the lot and reports a fee >= 0.             *)
C5_ScenarioAsStated ==
    [][(PS /\ lot_capacity = 1 /\ parked = {AA11})
       => /\ \A p \in PlateInputs :
                 (/\ clean(p) = BB22
                  /\ BB22 \in DOMAIN registered_drivers
                  /\ DoParkVehicle(p))
                 => /\ last'.exc.type = "FullLotError"
                    /\ BB22 \notin DOMAIN parked_vehicles'
          /\ \A p \in PlateInputs :
                 (clean(p) = AA11 /\ DoRemoveVehicleAndFee(p, None))
                 => LET r == remove_vehicle_and_fee(p, None) IN
                    /\ last'.exc = NoExc
                    /\ DOMAIN parked_vehicles' = {}
                    /\ r.report # NoReport
                    /\ r.report[1].fee >= 0]_vars

(* C5 as amended: the same, for a BB22 that has been registered and issued *)
(* a pass, and a removal of AA11 without an entry-time override.           *)
C5_ScenarioWithPass ==
    [][(PS /\ lot_capacity = 1 /\ parked = {AA11})
       => /\ \A p \in PlateInputs :
                 (/\ clean(p) = BB22
                  /\ BB22 \in DOMAIN registered_drivers
                  /\ BB22 \in DOMAIN issued_passes
                  /\ DoParkVehicle(p))
                 => /\ last'.exc.type = "FullLotError"
                    /\ BB22 \notin DOMAIN parked_vehicles'
          /\ \A p \in PlateInputs :
                 (clean(p) = AA11 /\ DoRemoveVehicleAndFee(p, None))
                 => LET r == remove_vehicle_and_fee(p, None) IN
                    /\ last'.exc = NoExc
                    /\ DOMAIN parked_vehicles' = {}
                    /\ r.report # NoReport
                    /\ r.report[1].fee >= 0]_vars

(* Capacity 1, AA11 has been in for a while, BB22 holds a pass and was refused. *)
C5_Witness ==
    /\ PS
    /\ lot_capacity = 1
    /\ parked = {AA11}
    /\ BB22 \in DOMAIN registered_drivers
    /\ BB22 \in DOMAIN issued_passes
    /\ last.op = "park_vehicle"
    /\ last.exc.type = "FullLotError"
    /\ clock > parked_vehicles[AA11]

-----------------------------------------------------------------------------
(* C6: removing a plate that is not parked fails with                      *)
(* VehicleNotParkedError and changes nothing.  parking_system.py:          *)
(* ParkingLot.remove_vehicle raises it, remove_vehicle_and_fee (with or    *)
(* without an override) catches it and leaves lot, drivers and passes as   *)
(* they are.  parking_management_system.py: process_exit raises it and     *)
(* leaves the three mappings as they are.  (There the empty string is no   *)
(* plate: sanitize_plate rejects it before the lookup, and the last        *)
(* conjunct states that this changes nothing either.)                      *)
C6_RemoveNotParkedRejected ==
    [][/\ (PS /\ Called("remove_vehicle_and_fee"))
          => \A p \in PlateInputs :
                 clean(p) \notin parked
                 => \A o \in OverrideInputs :
                        DoRemoveVehicleAndFee(p, o)
                        => /\ remove_vehicle(parked_vehicles, p).exc.type =
                                  "VehicleNotParkedError"
                           /\ last'.exc.type = "VehicleNotParkedError"
                           /\ last'.caught
                           /\ UNCHANGED ps_vars
       /\ (PMS /\ Called("process_exit"))
          => /\ \A p \in PmsPlateInputs :
                    (p # <<>> /\ clean(p) \notin pms_parked /\ DoPmsProcessExit(p))
                    => /\ last'.exc.type = "VehicleNotParkedError"
                       /\ ~last'.caught
                       /\ UNCHANGED pms_vars
             /\ DoPmsProcessExit(<<>>) => UNCHANGED pms_vars]_vars

(* AA11 holds a pass and is not in the lot (BB22 is); its removal was refused. *)
C6_Witness ==
    /\ PS
    /\ AA11 \in DOMAIN issued_passes
    /\ AA11 \notin parked
    /\ BB22 \in parked
    /\ last.op = "remove_vehicle_and_fee"
    /\ last.exc.type = "VehicleNotParkedError"

-----------------------------------------------------------------------------
(* C7: issue_pass for a plate that is not registered fails with a          *)
(* ParkingError and records no pass for it, in both scripts; so every      *)
(* plate with a pass is a registered plate.  (In                           *)
(* parking_management_system.py the empty string is no plate: it is        *)
(* rejected by sanitize_plate, and gets no pass either.)                   *)
C7_NoPassWithoutRegistration ==
    [][/\ (PS /\ Called("issue_pass"))
          => \A p \in PlateInputs :
                 clean(p) \notin DOMAIN registered_drivers
                 => \A t \in PassTypeInputs :
                        DoIssuePass(p, t)
                        => /\ IsParkingError(last'.exc)
                           /\ ~last'.caught
                           /\ clean(p) \notin DOMAIN issued_passes'
       /\ (PMS /\ Called("issue_pass"))
          => /\ \A p \in PmsPlateInputs :
                    (p # <<>> /\ clean(p) \notin DOMAIN pms_drivers)
                    => \A t \in PassTypeInputs :
                           DoPmsIssuePass(p, t)
                           => /\ IsParkingError(last'.exc)
                              /\ ~last'.caught
                              /\ clean(p) \notin DOMAIN pms_passes'
             /\ \A t \in PassTypeInputs :
                    DoPmsIssuePass(<<>>, t) => pms_passes' = pms_passes
       /\ DOMAIN issued_passes' \subseteq DOMAIN registered_drivers'
       /\ DOMAIN pms_passes' \subseteq DOMAIN pms_drivers']_vars

(* AA11 is registered and passed; a pass for an unregistered plate was refused. *)
C7_Witness ==
    /\ PMS
    /\ AA11 \in DOMAIN pms_passes
    /\ <<>> \notin DOMAIN pms_drivers
    /\ last.op = "issue_pass"
    /\ last.exc = Exc("ParkingError", "Driver must be registered first!")

-----------------------------------------------------------------------------
(* C8: parking_system.py: issue_pass for a plate that already has a pass   *)
(* fails with a ParkingError whatever type is asked for, and the pass      *)
(* (its class, rate and id) stays; so no step ever changes or drops an     *)
(* issued pass.                                                            *)
C8_IssuedPassNeverChanges ==
    [][PS
       => /\ Called("issue_pass")
             => \A p \in PlateInputs :
                    clean(p) \in DOMAIN issued_passes
                    => \A t \in PassTypeInputs :
                           DoIssuePass(p, t)
                           => /\ IsParkingError(last'.exc)
                              /\ ~last'.caught
                              /\ issued_passes' = issued_passes
          /\ \A k \in DOMAIN issued_passes :
                 /\ k \in DOMAIN issued_passes'
                 /\ issued_passes'[k] = issued_passes[k]]_vars

(* A second pass for AA11 was refused while AA11 was parked. *)
C8_Witness ==
    /\ PS
    /\ AA11 \in parked
    /\ issued_passes[AA11].cls = "StudentPass"
    /\ last.op = "issue_pass"
    /\ last.exc = Exc("ParkingError", "pass has already been issued")

-----------------------------------------------------------------------------
(* C9: parking_management_system.py: issue_pass for a plate that already   *)
(* has a pass fails and leaves the pass and its tier unchanged, also while *)
(* the plate is parked; so no step changes the tier of an issued pass.     *)
C9_PmsIssuedPassNeverChanges ==
    [][PMS
       => /\ Called("issue_pass")
             => \A p \in PmsPlateInputs :
                    (clean(p) # <<>> /\ clean(p) \in DOMAIN pms_passes)
                    => \A t \in PassTypeInputs :
                           DoPmsIssuePass(p, t)
                           => /\ last'.exc # NoExc
                              /\ pms_passes' = pms_passes
          /\ \A k \in DOMAIN pms_passes \ {<<>>} :
                 /\ k \in DOMAIN pms_passes'
                 /\ pms_passes'[k].cls = pms_passes[k].cls]_vars

-----------------------------------------------------------------------------
(* C10: parking_management_system.py: issue_pass for a registered plate    *)
(* with a type that is neither "student" nor "staff", compared without     *)
(* regard to case, fails with an invalid-argument error (ValueError) and   *)
(* records no pass.                                                        *)
C10_PmsInvalidPassTypeRejected ==
    [][(PMS /\ Called("issue_pass"))
       => \A p \in PmsPlateInputs, t \in PassTypeInputs :
              (/\ clean(p) # <<>>
               /\ clean(p) \in DOMAIN pms_drivers
               /\ lower(t) \notin {student, staff}
               /\ DoPmsIssuePass(p, t))
              => /\ last'.exc.type = "ValueError"
                 /\ pms_passes' = pms_passes]_vars

-----------------------------------------------------------------------------
(* C11: parking a plate that has no issued pass fails and leaves the lot   *)
(* (and everything else) unchanged, registered or not, full or not.        *)
(* parking_system.py: park_vehicle raises and catches the ParkingError     *)
(* "no active parking pass".  parking_management_system.py: process_entry  *)
(* raises (ParkingError, or ValueError for the empty string).  So every    *)
(* parked plate holds a pass.                                              *)
C11_NoParkingWithoutPass ==
    [][/\ (PS /\ Called("park_vehicle"))
          => \A p \in PlateInputs :
                 (clean(p) \notin DOMAIN issued_passes /\ DoParkVehicle(p))
                 => /\ last'.exc = Exc("ParkingError", "does not have an active parking pass")
                    /\ last'.caught
                    /\ clean(p) \notin DOMAIN parked_vehicles'
                    /\ UNCHANGED ps_vars
       /\ (PMS /\ Called("process_entry"))
          => \A p \in PmsPlateInputs :
                 (clean(p) \notin DOMAIN pms_passes /\ DoPmsProcessEntry(p))
                 => /\ last'.exc.type \in {"ParkingError", "ValueError"}
                    /\ p # <<>> => last'.exc.type = "ParkingError"
                    /\ clean(p) \notin DOMAIN pms_parked_vehicles'
                    /\ UNCHANGED pms_vars
       /\ DOMAIN parked_vehicles' \subseteq DOMAIN issued_passes'
       /\ DOMAIN pms_parked_vehicles' \subseteq DOMAIN pms_passes']_vars

(* AA11 is registered without a pass and was refused by a lot with free space. *)
C11_Witness ==
    /\ PS
    /\ AA11 \in DOMAIN registered_drivers
    /\ AA11 \notin DOMAIN issued_passes
    /\ Cardinality(parked) < lot_capacity
    /\ last.op = "park_vehicle"
    /\ last.exc = Exc("ParkingError", "does not have an active parking pass")

-----------------------------------------------------------------------------
(* C12: parking_system.py, the states of a plate.  After a successful      *)
(* remove_vehicle_and_fee the plate is Passed: not parked, its pass and    *)
(* its driver still there (the pass is the very same), and the lot has a   *)
(* place for it that add_vehicle would give.  In every state a             *)
(* park_vehicle of a Passed plate into a lot that is not full succeeds,    *)
(* parks the plate and issues no pass; as this holds in every state, the   *)
(* cycle Passed -> Parked -> Passed can be gone through again and again.   *)
C12_PassedAfterExitAndParkAgain ==
    [][PS
       => /\ Called("remove_vehicle_and_fee")
             => \A p \in PlateInputs, o \in OverrideInputs :
                    (DoRemoveVehicleAndFee(p, o) /\ last'.exc = NoExc)
                    => /\ clean(p) \in parked
                       /\ clean(p) \notin DOMAIN parked_vehicles'
                       /\ clean(p) \in DOMAIN issued_passes'
                       /\ issued_passes'[clean(p)] = issued_passes[clean(p)]
                       /\ clean(p) \in DOMAIN registered_drivers'
                       /\ ~is_full(parked_vehicles', lot_capacity')
                       /\ add_vehicle(parked_vehicles', lot_capacity', p, clock').exc = NoExc
          /\ Called("park_vehicle")
             => \A p \in PlateInputs :
                    (/\ clean(p) \in DOMAIN issued_passes
                     /\ clean(p) \notin parked
                     /\ ~is_full(parked_vehicles, lot_capacity)
                     /\ DoParkVehicle(p))
                    => /\ last'.exc = NoExc
                       /\ DOMAIN parked_vehicles' = parked \cup {clean(p)}
                       /\ parked_vehicles'[clean(p)] = clock
                       /\ issued_passes' = issued_passes]_vars

(* AA11 has left a lot of two places where BB22 stays, billed after a while. *)
C12_Witness ==
    /\ PS
    /\ lot_capacity = 2
    /\ parked = {BB22}
    /\ AA11 \in DOMAIN issued_passes
    /\ AA11 \in DOMAIN registered_drivers
    /\ last.op = "remove_vehicle_and_fee"
    /\ last.exc = NoExc
    /\ clock = MaxTime

-----------------------------------------------------------------------------
(* The round trip of C13, for the overrides in O(clock) that are said to   *)
(* be billed.  A successful park_vehicle puts exactly the plate into the   *)
(* lot, and ParkingLot.remove_vehicle right after it gives the lot back as *)
(* it was.  remove_vehicle_and_fee of a parked plate, at any later time,   *)
(* takes exactly that plate out; with an override in O(clock) it bills a   *)
(* fee >= 0.                                                               *)
RoundTrip(O(_)) ==
    PS
    => /\ Called("park_vehicle")
          => \A p \in PlateInputs :
                 (DoParkVehicle(p) /\ last'.exc = NoExc)
                 => /\ clean(p) \in DOMAIN issued_passes
                    /\ clean(p) \notin parked
                    /\ DOMAIN parked_vehicles' = parked \cup {clean(p)}
                    /\ remove_vehicle(parked_vehicles', p).exc = NoExc
                    /\ remove_vehicle(parked_vehicles', p).pv = parked_vehicles
       /\ Called("remove_vehicle_and_fee")
          => \A p \in PlateInputs, o \in OverrideInputs :
                 (clean(p) \in parked /\ DoRemoveVehicleAndFee(p, o))
                 => LET r == remove_vehicle_and_fee(p, o) IN
                    /\ clean(p) \notin DOMAIN parked_vehicles'
                    /\ parked_vehicles' = Pop(parked_vehicles, clean(p))
                    /\ o \in O(clock)
                       => /\ last'.exc = NoExc
                          /\ r.report # NoReport
                          /\ r.report[1].fee >= 0
                    /\ o \notin O(clock)
                       => /\ last'.exc = NegativeHours
                          /\ last'.caught
                          /\ r.report = NoReport

AnyOverride(now) == OverrideInputs

OverrideNotAfter(now) == {o \in OverrideInputs : o = None \/ o <= now}

(* C13 as stated: parking_system.py: a successful park_vehicle followed by *)
(* remove_vehicle_and_fee, with or without an entry_time_override, leaves  *)
(* the plate not parked, gives back the set of parked plates and bills a   *)
(* fee >= 0.                                                               *)
C13_RoundTripAsStated == [][RoundTrip(AnyOverride)]_vars

(* C13 as amended: the same, with a fee >= 0 billed when there is no       *)
(* override or the override is not later than the exit time; with a later  *)
(* override the plate leaves the lot as well, calculate_fee rejects the    *)
(* negative duration and nothing is billed.                                *)
C13_RoundTrip == [][RoundTrip(OverrideNotAfter)]_vars

(* A staff pass holder has left the single place of the lot and was billed. *)
C13_Witness ==
    /\ PS
    /\ lot_capacity = 1
    /\ parked = {}
    /\ AA11 \in DOMAIN issued_passes
    /\ issued_passes[AA11].cls = "StaffPass"
    /\ last.op = "remove_vehicle_and_fee"
    /\ last.exc = NoExc
    /\ clock >= 1

-----------------------------------------------------------------------------
(* What calculate_fee of a pass of either script gives for a number of hours. *)
FeeOf(script, self, hours_parked) ==
    IF script = "parking_system" THEN calculate_fee(self, hours_parked)
    ELSE [exc |-> NoExc, fee |-> pms_calculate_fee(self, hours_parked)]

FeeCalled == prog = "calculate_fee" /\ fee_call.result # NoResult

(* C14: for hours h >= 0, in both scripts, StudentPass.calculate_fee(h) is *)
(* h * 2.0 and StaffPass.calculate_fee(h) is max(0, h - 1) * 3.0 (staff    *)
(* 0.5 h and 1 h cost 0.0, student 3 h cost 6.0); the fee of any pass is   *)
(* never negative and does not decrease when h grows.  (h and the fee are  *)
(* counted in halves: HourScale to the hour and to the TL.)                *)
C14_FeeFormulas ==
    (FeeCalled /\ fee_call.hours_parked >= 0)
    => LET h == fee_call.hours_parked
           self == fee_call.self
           fee == fee_call.result.fee
       IN
       /\ fee_call.result.exc = NoExc
       /\ self.cls = "StudentPass" => fee * HourScale = h * (2 * HourScale)
       /\ self.cls = "StaffPass"
          => fee * HourScale = (IF h - 1 * HourScale > 0 THEN h - 1 * HourScale ELSE 0)
                               * (3 * HourScale)
       /\ (self.cls = "StaffPass" /\ 2 * h \in {1 * HourScale, 2 * HourScale}) => fee = 0
       /\ (self.cls = "StudentPass" /\ h = 3 * HourScale) => fee = 6 * HourScale
       /\ fee >= 0
       /\ \A g \in HoursInputs :
              (0 <= g /\ g <= h) => FeeOf(fee_call.script, self, g).fee <= fee

(* The staff pass of parking_management_system.py was asked for half an hour. *)
C14_Witness ==
    /\ FeeCalled
    /\ fee_call.script = "parking_management_system"
    /\ fee_call.self.cls = "StaffPass"
    /\ 2 * fee_call.hours_parked = 1 * HourScale
    /\ fee_call.result.fee = 0

-----------------------------------------------------------------------------
(* C15: calculate_fee called with negative hours fails with a validation   *)
(* error (ValueError) and returns no fee, for the ParkingPass, StudentPass *)
(* and StaffPass of parking_system.py and for the StudentPass and          *)
(* StaffPass of parking_management_system.py.                              *)
C15_NegativeHoursRejected ==
    (FeeCalled /\ fee_call.hours_parked < 0)
    => fee_call.result.exc.type = "ValueError"

-----------------------------------------------------------------------------
(* C16: parking_system.py: ParkingLot.add_vehicle for a plate that is      *)
(* already parked never succeeds: it raises the ParkingError "is already   *)
(* parked" when the lot has a free place and FullLotError when it has      *)
(* none, and the lot's mapping (the plate's entry time, the number of      *)
(* plates) stays as it is; so does every park_vehicle step of that plate.  *)
C16_DuplicateParkRejected ==
    [][PS
       => \A p \in PlateInputs :
              clean(p) \in parked
              => LET added == add_vehicle(parked_vehicles, lot_capacity, p, clock) IN
                 /\ Cardinality(parked) < lot_capacity
                    => added.exc = Exc("ParkingError", "is already parked")
                 /\ Cardinality(parked) >= lot_capacity
                    => added.exc.type = "FullLotError"
                 /\ added.pv = parked_vehicles
                 /\ (Called("park_vehicle") /\ DoParkVehicle(p))
                    => /\ last'.exc = added.exc
                       /\ last'.caught
                       /\ parked_vehicles'[clean(p)] = parked_vehicles[clean(p)]
                       /\ Cardinality(DOMAIN parked_vehicles') = Cardinality(parked)
                       /\ UNCHANGED ps_vars]_vars

(* AA11, parked earlier in a lot with a free place, was not parked a second time. *)
C16_Witness ==
    /\ PS
    /\ lot_capacity = 2
    /\ parked = {AA11}
    /\ parked_vehicles[AA11] < clock
    /\ last.op = "park_vehicle"
    /\ last.exc = Exc("ParkingError", "is already parked")

-----------------------------------------------------------------------------
(* C17: parking_management_system.py: process_entry for a plate that is    *)
(* already parked fails and leaves the plate's entry time as it is, so     *)
(* that the next process_exit bills the time since the first entry.        *)
C17_PmsDuplicateEntryRejected ==
    [][(PMS /\ Called("process_entry"))
       => \A p \in PmsPlateInputs :
              (clean(p) # <<>> /\ clean(p) \in pms_parked /\ DoPmsProcessEntry(p))
              => /\ last'.exc # NoExc
                 /\ pms_parked_vehicles'[clean(p)] = pms_parked_vehicles[clean(p)]
                 /\ \A now \in clock .. MaxTime :
                        hours_between(pms_parked_vehicles'[clean(p)], now)
                            = hours_between(pms_parked_vehicles[clean(p)], now)]_vars

-----------------------------------------------------------------------------
(* A stored plate as it should be: not empty, no space, no lower-case letter. *)
ValidPlate(k) ==
    /\ k # <<>>
    /\ \A i \in 1 .. Len(k) : k[i] # " " /\ k[i] \notin DOMAIN ToUpper

(* C18: a Vehicle is built from a plate string only if the normalized      *)
(* plate is not empty, has no space and no lower-case letter; a plate made *)
(* of spaces alone is rejected with a validation error (ValueError).  So   *)
(* every key of the registered drivers of either script, and the plate of  *)
(* the Vehicle stored under it, is such a plate, never the empty string.   *)
C18_StoredPlatesAreValid ==
    [][/\ \A k \in DOMAIN registered_drivers' :
              ValidPlate(k) /\ registered_drivers'[k].vehicle.license_plate = k
       /\ \A k \in DOMAIN pms_drivers' :
              ValidPlate(k) /\ pms_drivers'[k].vehicle.license_plate = k
       /\ (PS /\ Called("register_driver_and_vehicle"))
          => \A d \in DriverInputs, t \in VehicleTypeInputs :
                 DoRegisterDriverAndVehicle(d[1], d[2], <<" ">>, t)
                 => last'.exc.type = "ValueError"
       /\ (PMS /\ Called("register_driver"))
          => \A d \in DriverInputs, t \in VehicleTypeInputs :
                 DoPmsRegisterDriver(d[1], d[2], <<" ">>, t)
                 => last'.exc.type = "ValueError"]_vars

-----------------------------------------------------------------------------
(* Two plate strings that differ only in letter case or in spaces. *)
SamePlate(p, q) == replace_spaces(lower(p)) = replace_spaces(lower(q))

(* C19: parking_system.py: in every reachable state, each operation gives  *)
(* the same outcome (exception, caught or not, report) and the same        *)
(* resulting mapping for two plate strings that differ only in letter case *)
(* or in spaces, so that a sequence of operations goes the same way with   *)
(* either spelling; and normalizing a normalized plate changes nothing.    *)
C19_SpellingsAreOnePlate ==
    PS
    => \A p \in PlateInputs :
           /\ clean(clean(p)) = clean(p)
           /\ SamePlate(p, clean(p))
           /\ \A q \in PlateInputs :
                  SamePlate(p, q)
                  => /\ clean(p) = clean(q)
                     /\ \A d \in DriverInputs, t \in VehicleTypeInputs :
                            register_driver_and_vehicle(d[1], d[2], p, t)
                                = register_driver_and_vehicle(d[1], d[2], q, t)
                     /\ \A t \in PassTypeInputs : issue_pass(p, t) = issue_pass(q, t)
                     /\ park_vehicle(p) = park_vehicle(q)
                     /\ \A o \in OverrideInputs :
                            remove_vehicle_and_fee(p, o) = remove_vehicle_and_fee(q, o)
                     /\ is_parked(parked_vehicles, p) = is_parked(parked_vehicles, q)
                     /\ add_vehicle(parked_vehicles, lot_capacity, p, clock)
                            = add_vehicle(parked_vehicles, lot_capacity, q, clock)
                     /\ remove_vehicle(parked_vehicles, p) = remove_vehicle(parked_vehicles, q)

(* Both plates are in the lot: "aa 11" and "AA11" now name a parked plate. *)
C19_Witness ==
    /\ PS
    /\ SamePlate(aa_11, AA11)
    /\ aa_11 # AA11
    /\ parked = {AA11, BB22}
    /\ is_parked(parked_vehicles, aa_11)
    /\ last.op = "park_vehicle"
    /\ last.exc = NoExc

-----------------------------------------------------------------------------
(* C20: parking_system.py: the entry time kept for a parked plate is the   *)
(* time of its most recent successful add_vehicle: a successful park       *)
(* records the current time for that plate alone, and no other step        *)
(* changes the time of a plate that stays parked.  A successful            *)
(* ParkingLot.remove_vehicle returns exactly that time and takes out that  *)
(* plate alone.  remove_vehicle_and_fee without an override reports that   *)
(* entry time, the hours from it to the exit time, and the fee that the    *)
(* pass issued for the same plate gives for those hours.                   *)
C20_RemoveReturnsOwnEntryTime ==
    [][PS
       => /\ Called("park_vehicle")
             => \A p \in PlateInputs :
                    (DoParkVehicle(p) /\ last'.exc = NoExc)
                    => parked_vehicles' = Put(parked_vehicles, clean(p), clock)
          /\ \A k \in parked \cap DOMAIN parked_vehicles' :
                 /\ parked_vehicles'[k] = parked_vehicles[k]
                 /\ parked_vehicles[k] <= clock
          /\ \A p \in PlateInputs :
                 clean(p) \in parked
                 => LET removed == remove_vehicle(parked_vehicles, p) IN
                    /\ removed.exc = NoExc
                    /\ removed.entry_time = parked_vehicles[clean(p)]
                    /\ removed.pv = Pop(parked_vehicles, clean(p))
          /\ Called("remove_vehicle_and_fee")
             => \A p \in PlateInputs :
                    (clean(p) \in parked /\ DoRemoveVehicleAndFee(p, None))
                    => LET r == remove_vehicle_and_fee(p, None)
                           own_pass == issued_passes[clean(p)]
                           stay == clock - parked_vehicles[clean(p)]
                       IN
                       /\ last'.exc = NoExc
                       /\ r.report # NoReport
                       /\ r.report[1].plate = clean(p)
                       /\ r.report[1].entry_time = parked_vehicles[clean(p)]
                       /\ r.report[1].exit_time = clock
                       /\ r.report[1].hours_parked * SecondsPerHour
                              = stay * TickSeconds * HourScale
                       /\ r.report[1].pass_type = own_pass.cls
                       /\ own_pass.driver.vehicle.license_plate = clean(p)
                       /\ r.report[1].fee
                              = IF own_pass.cls = "StudentPass"
                                THEN r.report[1].hours_parked * 2
                                ELSE IF r.report[1].hours_parked <= 1 * HourScale THEN 0
                                ELSE (r.report[1].hours_parked - 1 * HourScale) * 3]_vars

(* AA11, a student, has left and was billed; BB22, staff, parked at the start, stays. *)
C20_Witness ==
    /\ PS
    /\ parked = {BB22}
    /\ parked_vehicles[BB22] = 0
    /\ issued_passes[BB22].cls = "StaffPass"
    /\ AA11 \in DOMAIN issued_passes
    /\ issued_passes[AA11].cls = "StudentPass"
    /\ last.op = "remove_vehicle_and_fee"
    /\ last.exc = NoExc
    /\ clock >= 1

-----------------------------------------------------------------------------
(* C21: parking_system.py: list_active_passes changes nothing (drivers,    *)
(* passes, lot, capacity), ends without an exception, prints one line for  *)
(* each plate that has an issued pass and for no other plate, and the line *)
(* of a plate says "Parked" exactly when the plate is in the lot.          *)
C21_ListActivePassesReadOnly ==
    [][(PS /\ Called("list_active_passes") /\ DoListActivePasses)
       => LET r == list_active_passes IN
          /\ UNCHANGED <<ps_vars, lot_capacity, clock>>
          /\ last'.exc = NoExc
          /\ {row.plate : row \in r.report} = DOMAIN issued_passes
          /\ Cardinality(r.report) = Cardinality(DOMAIN issued_passes)
          /\ \A row \in r.report :
                 /\ row.park_status \in {"Parked", "Not Parked"}
                 /\ row.park_status = "Parked" <=> row.plate \in parked
                 /\ row.pass_type = issued_passes[row.plate].cls]_vars

(* Listed: AA11 with a pass and parked, BB22 with a pass and not parked. *)
C21_Witness ==
    /\ PS
    /\ last.op = "list_active_passes"
    /\ DOMAIN issued_passes = {AA11, BB22}
    /\ parked = {AA11}

-----------------------------------------------------------------------------
(* C22: the menu loops of both scripts.  A call that ends with an          *)
(* exception, a ParkingError or any other, never ends the loop: a handler  *)
(* of the loop (or of the method) takes it and the loop is back at the     *)
(* menu, where every command is accepted again; the loop leaves the menu   *)
(* only by the exit choice, and is then ended, not crashed.                *)
C22_FailuresNeverEndTheLoop ==
    /\ [](((PS \/ PMS) /\ last.exc # NoExc)
          => /\ last.loop = "menu"
             /\ PS => /\ ENABLED DoListActivePasses
                      /\ ENABLED DoExit
                      /\ ENABLED (\E p \in PlateInputs : DoParkVehicle(p))
             /\ PMS => /\ ENABLED DoPmsExit
                       /\ ENABLED (\E p \in PmsPlateInputs : DoPmsProcessEntry(p)))
    /\ [][(PS \/ PMS)
          => /\ last'.exc # NoExc
                => /\ last'.loop = "menu"
                   /\ (PS /\ ~last'.caught) => run_menu_except(last'.exc) # "uncaught"
                   /\ (PMS /\ ~last'.caught) => pms_main_except(last'.exc) # "uncaught"
             /\ last'.loop # "menu"
                => /\ Called("exit")
                   /\ last'.loop = "ended"
                   /\ last'.exc = NoExc]_vars

(* A ValueError of issue_pass reached the loop of parking_system.py, which goes on. *)
C22_Witness ==
    /\ PS
    /\ last.op = "issue_pass"
    /\ last.exc.type = "ValueError"
    /\ ~last.caught
    /\ last.loop = "menu"
    /\ AA11 \in parked

-----------------------------------------------------------------------------
(* C23: parking_system.py: remove_vehicle_and_fee is all or nothing, for   *)
(* every plate and every entry_time_override, one later than the exit time *)
(* included: either the plate leaves the lot and a fee is computed and     *)
(* reported, or the call reports a failure and the lot is as it was (a     *)
(* plate that was parked is still parked).                                 *)
C23_RemoveAllOrNothing ==
    [][(PS /\ Called("remove_vehicle_and_fee"))
       => \A p \in PlateInputs, o \in OverrideInputs :
              DoRemoveVehicleAndFee(p, o)
              => LET r == remove_vehicle_and_fee(p, o) IN
                 \/ /\ last'.exc = NoExc
                    /\ clean(p) \in parked
                    /\ clean(p) \notin DOMAIN parked_vehicles'
                    /\ r.report # NoReport
                    /\ r.report[1].fee >= 0
                 \/ /\ last'.exc # NoExc
                    /\ r.report = NoReport
                    /\ parked_vehicles' = parked_vehicles]_vars

-----------------------------------------------------------------------------
(* C24: in both scripts, after any calls, every parked plate has an issued *)
(* pass and every plate with a pass has a registered driver; so the pass   *)
(* looked up at exit and the driver looked up by list_active_passes are    *)
(* always there: no call ends with the AttributeError or KeyError of a     *)
(* missing entry.                                                          *)
C24_ParkedPassedRegistered ==
    /\ PS => /\ parked \subseteq DOMAIN issued_passes
             /\ DOMAIN issued_passes \subseteq DOMAIN registered_drivers
             /\ list_active_passes.exc = NoExc
             /\ \A p \in PlateInputs :
                    remove_vehicle_and_fee(p, None).exc.type # "AttributeError"
    /\ PMS => /\ pms_parked \subseteq DOMAIN pms_passes
              /\ DOMAIN pms_passes \subseteq DOMAIN pms_drivers
              /\ \A p \in PmsPlateInputs : pms_process_exit(p).exc.type # "KeyError"
    /\ last.exc.type \notin {"AttributeError", "KeyError"}

(* parking_management_system.py: AA11 is billed at exit; a second plate holds a pass. *)
C24_Witness ==
    /\ PMS
    /\ last.op = "process_exit"
    /\ last.exc = NoExc
    /\ AA11 \notin pms_parked
    /\ Cardinality(DOMAIN pms_passes) = 2
    /\ Cardinality(pms_parked) = 1
    /\ DOMAIN pms_drivers = DOMAIN pms_passes

-----------------------------------------------------------------------------
(* The amount is zero or less. *)
NonPositive(amount) == float_le(amount, Float(0))

(* The step changed the balance of the card by exactly d, up or down, and  *)
(* no other balance.                                                        *)
BalanceUpBy(card, d) ==
    /\ float_eq(float_sub(vault'[card], vault[card]), d)
    /\ \A other \in DOMAIN vault \ {card} : vault'[other] = vault[other]

BalanceDownBy(card, d) ==
    /\ float_eq(float_sub(vault[card], vault'[card]), d)
    /\ \A other \in DOMAIN vault \ {card} : vault'[other] = vault[other]

(* C25: an account that starts with a non-negative balance never has a     *)
(* negative one after any deposits and withdrawals; a deposit of a         *)
(* non-positive amount, and a withdrawal of a non-positive amount or of    *)
(* more than the balance, are refused and leave the balance as it was;     *)
(* every other deposit raises and every other withdrawal lowers the        *)
(* balance by exactly the amount (StandardAccount and Account).            *)
C25_BalanceRules ==
    /\ [](\A card \in DOMAIN vault : ~float_lt(vault[card], Float(0)))
    /\ [][\A card \in DOMAIN vault, amount \in AmountInputs :
            /\ (DoDeposit(card, amount) \/ DoAccountDeposit(card, amount)) =>
                   IF NonPositive(amount)
                   THEN vault' = vault
                   ELSE BalanceUpBy(card, amount)
            /\ (DoWithdraw(card, amount) \/ DoAccountWithdraw(card, amount)) =>
                   IF NonPositive(amount) \/ float_gt(amount, vault[card])
                   THEN vault' = vault
                   ELSE BalanceDownBy(card, amount)]_vars

-----------------------------------------------------------------------------
(* The patient has a doctor, and it is the one the registry holds under    *)
(* that doctor's id.                                                        *)
AssignedDoctorIsRegistered(p_id) ==
    \A doctor \in patients[p_id].assigned_doctor :
        /\ doctor.person_id \in DOMAIN doctors
        /\ doctors[doctor.person_id] = doctor

(* C26: after any add_doctor, admit_patient and assign_patient_to_doctor   *)
(* calls, the doctor assigned to a patient, if there is one, is the doctor *)
(* the registry now holds under that doctor's id; an assignment that names *)
(* an unknown patient id or an unknown doctor id raises                    *)
(* PersonNotFoundError and changes no patient's assignment.                *)
C26_AssignedDoctorIsTheRegistered ==
    /\ [](\A p_id \in DOMAIN patients : AssignedDoctorIsRegistered(p_id))
    /\ [][\A p_id \in PatientIdInputs, d_id \in DoctorIdInputs :
            (/\ DoAssignPatientToDoctor(p_id, d_id)
             /\ (p_id \notin DOMAIN patients \/ d_id \notin DOMAIN doctors)) =>
                /\ last'.exc.type = "PersonNotFoundError"
                /\ patients' = patients]_vars

====
